---- MODULE Spec2Model ----
(***************************************************************************)
(* A model of AFLCoverage::runOnModule, the LLVM pass of LTL-Fuzzer's      *)
(* AFLGo (src/AFLGo/llvm_mode/afl-llvm-pass.so.cc).                        *)
(*                                                                         *)
(* A std::string is a sequence of one-character strings.  An instruction   *)
(* is a record: whether it carries a debug location, the location's file   *)
(* path and line, its opcode and (for a call) the callee.  A basic block   *)
(* is a sequence of instructions.                                          *)
(***************************************************************************)
EXTENDS Integers, Sequences, FiniteSets, TLC

(***************************************************************************)
(* std::string primitives, computed as libstdc++ computes them.  A         *)
(* position is 1-based here and 0 stands for std::string::npos.            *)
(***************************************************************************)

\* std::string::find_last_of(chars): the last position holding one of chars.
find_last_of(s, chars) ==
  LET hits == {i \in 1..Len(s) : s[i] \in chars}
  IN  IF hits = {} THEN 0 ELSE CHOOSE i \in hits : \A j \in hits : j <= i

\* std::string::find(ch): the first position holding ch.
find_first(s, ch) ==
  LET hits == {i \in 1..Len(s) : s[i] = ch}
  IN  IF hits = {} THEN 0 ELSE CHOOSE i \in hits : \A j \in hits : i <= j

\* s.substr(found + 1) when found is not npos: the text after position found.
substr_after(s, found) == SubSeq(s, found + 1, Len(s))

\* s.substr(0, pos): the text before position pos; the whole string at npos.
substr_before(s, pos) == IF pos = 0 THEN s ELSE SubSeq(s, 1, pos - 1)

\* The idiom of lines 351-353, 361-363, 370-372, 492-494, 534-536:
\* found = s.find_last_of("/\\"); if (found != npos) s = s.substr(found + 1).
StripDir(s) ==
  LET found == find_last_of(s, {"/", "\\"})
  IN  IF found # 0 THEN substr_after(s, found) ELSE s

\* !s.compare(0, p.size(), p): the first p.size() characters of s equal p.
compare_prefix(s, p) ==
  SubSeq(s, 1, IF Len(s) < Len(p) THEN Len(s) ELSE Len(p)) = p

\* llvm::StringRef::startswith.
startswith(s, p) == Len(s) >= Len(p) /\ SubSeq(s, 1, Len(p)) = p

Digits == <<"0", "1", "2", "3", "4", "5", "6", "7", "8", "9">>

DigitChars == {Digits[i] : i \in 1..10}

DigitVal(c) == (CHOOSE i \in 1..10 : Digits[i] = c) - 1

\* std::to_string(unsigned): the decimal digits, no sign, no leading zero.
RECURSIVE to_string(_)
to_string(n) ==
  IF n < 10 THEN <<Digits[n + 1]>>
  ELSE to_string(n \div 10) \o <<Digits[(n % 10) + 1]>>

\* The value of the longest run of digits that starts s at position i, with
\* acc the value read so far (the digit loop of atoi, stoi and sscanf %u).
RECURSIVE ReadDigits(_, _, _)
ReadDigits(s, i, acc) ==
  IF i <= Len(s) /\ s[i] \in DigitChars
  THEN ReadDigits(s, i + 1, 10 * acc + DigitVal(s[i]))
  ELSE acc

\* The first position of s at or after i that holds no blank.
RECURSIVE SkipBlanks(_, _)
SkipBlanks(s, i) ==
  IF i <= Len(s) /\ s[i] = " " THEN SkipBlanks(s, i + 1) ELSE i

\* atoi(s.c_str()) for text without a sign character (the modelled inputs hold
\* none): blanks, then digits; 0 when no digit follows.
atoi(s) == ReadDigits(s, SkipBlanks(s, 1), 0)

\* sscanf(s, "%u", &x) for text without a sign character: n is the return value
\* (1 when a number was read, 0 on a matching failure, -1 (EOF) when the input
\* ends first); v is what x gets when n = 1.  Text after the digits is left
\* unread, not rejected.
sscanf_u(s) ==
  LET i == SkipBlanks(s, 1)
  IN  IF i > Len(s) THEN [n |-> -1, v |-> 0]
      ELSE IF s[i] \notin DigitChars THEN [n |-> 0, v |-> 0]
      ELSE [n |-> 1, v |-> ReadDigits(s, i, 0)]

(***************************************************************************)
(* Instructions and the helpers of the pass.                               *)
(***************************************************************************)

\* instr::InstrFunc::getDebugLoc(&I, filename, line): an instruction that
\* carries a debug location sets both outputs; one that carries none leaves
\* both as the caller passed them.
getDebugLoc(I, filename, line) ==
  IF I.hasLoc THEN [filename |-> I.file, line |-> I.line]
  ELSE [filename |-> filename, line |-> line]

Blacklist ==
  << <<"a", "s", "a", "n", ".">>,
     <<"l", "l", "v", "m", ".">>,
     <<"s", "a", "n", "c", "o", "v", ".">>,
     <<"_", "_", "u", "b", "s", "a", "n", "_", "h", "a", "n", "d", "l", "e", "_">>,
     <<"f", "r", "e", "e">>,
     <<"m", "a", "l", "l", "o", "c">>,
     <<"c", "a", "l", "l", "o", "c">>,
     <<"r", "e", "a", "l", "l", "o", "c">> >>

isBlacklisted(name) ==
  \E k \in 1..Len(Blacklist) : startswith(name, Blacklist[k])

Xlibs == <<"/", "u", "s", "r", "/">>

\* filename + ":" + std::to_string(line)
LocName(filename, line) == filename \o <<":">> \o to_string(line)

(***************************************************************************)
(* Phase 1 (preprocessing), lines 343-425: the scan of one basic block.    *)
(***************************************************************************)

\* A slip: the target's line is not compared.
TargetMatches_NoLine(target, filename, line) ==
  LET pos         == find_last_of(target, {":"})
      target_file == substr_before(target, pos)
  IN  target_file = filename

\* Lines 370-377 for one target (already stripped of its directories): the
\* target names this file and this line.
TargetMatches(target, filename, line) ==
  LET pos         == find_last_of(target, {":"})
      target_file == substr_before(target, pos)
      target_line == atoi(substr_after(target, pos))
  IN  target_file = filename /\ target_line = line

\* A variant: the call is looked at before the location filter of line 356,
\* so that a call is recorded whatever its own location.
P1Instr_CallFirst(acc, I) ==
  LET loc      == getDebugLoc(I, acc.filename, acc.line)
      filename == StripDir(loc.filename)
      line     == loc.line
      usable   == ~(filename = <<>> \/ line = 0 \/ compare_prefix(filename, Xlibs))
      bb_name  == IF usable /\ acc.bb_name = <<>>
                  THEN LocName(StripDir(filename), line)
                  ELSE acc.bb_name
      targets  == IF acc.is_target \/ ~usable THEN acc.targets
                  ELSE [k \in 1..Len(acc.targets) |-> StripDir(acc.targets[k])]
      is_target ==
        \/ acc.is_target
        \/ usable /\ \E k \in 1..Len(targets) : TargetMatches(targets[k], filename, line)
      bbcalls  == IF /\ I.op = "call"
                     /\ I.callee # <<>>
                     /\ ~isBlacklisted(I.callee)
                  THEN Append(acc.bbcalls, [bb |-> bb_name, callee |-> I.callee])
                  ELSE acc.bbcalls
  IN  [filename |-> filename, line |-> line, bb_name |-> bb_name,
       is_target |-> is_target, targets |-> targets, bbcalls |-> bbcalls]

\* Lines 350-393: one iteration of the instruction loop.  acc holds the
\* variables that live across iterations: filename and line (declared per
\* block, line 346-347), bb_name, is_target, the targets list (rewritten in
\* place by line 372) and the lines written to BBcalls.txt.
P1Instr(acc, I) ==
  LET loc      == getDebugLoc(I, acc.filename, acc.line)
      filename == StripDir(loc.filename)
      line     == loc.line
      seen     == [acc EXCEPT !.filename = filename, !.line = line]
  IN  IF filename = <<>> \/ line = 0 \/ compare_prefix(filename, Xlibs)
      THEN seen
      ELSE
        LET bb_name == IF acc.bb_name = <<>>
                       THEN LocName(StripDir(filename), line)
                       ELSE acc.bb_name
            targets == IF acc.is_target THEN acc.targets
                       ELSE [k \in 1..Len(acc.targets) |-> StripDir(acc.targets[k])]
            is_target ==
              \/ acc.is_target
              \/ \E k \in 1..Len(targets) : TargetMatches(targets[k], filename, line)
            bbcalls == IF /\ I.op = "call"
                          /\ I.callee # <<>>
                          /\ ~isBlacklisted(I.callee)
                       THEN Append(acc.bbcalls, [bb |-> bb_name, callee |-> I.callee])
                       ELSE acc.bbcalls
        IN  [filename |-> filename, line |-> line, bb_name |-> bb_name,
             is_target |-> is_target, targets |-> targets, bbcalls |-> bbcalls]

\* Lines 349-394: the instruction loop over the block, from instruction i on.
RECURSIVE P1Loop(_, _, _)
P1Loop(BB, i, acc) ==
  IF i > Len(BB) THEN acc ELSE P1Loop(BB, i + 1, P1Instr(acc, BB[i]))

\* Lines 345-394: the scan of block BB of a function whose is_target flag and
\* targets list stand as given.  line is declared without a value (line 347)
\* and is read only after getDebugLoc has set filename, hence set line too.
P1Scan(BB, is_target, targets) ==
  P1Loop(BB, 1, [filename |-> <<>>, line |-> 0, bb_name |-> <<>>,
                 is_target |-> is_target, targets |-> targets, bbcalls |-> <<>>])

(***************************************************************************)
(* Phase 2 (distance instrumentation), lines 485-498: the block's name.    *)
(***************************************************************************)

\* Lines 485-498: the first instruction with a non-empty file and a non-zero
\* line names the block; filename is a fresh empty string per instruction.
RECURSIVE P2Name(_, _)
P2Name(BB, i) ==
  IF i > Len(BB) THEN <<>>
  ELSE LET loc == getDebugLoc(BB[i], <<>>, 0)
       IN  IF loc.filename = <<>> \/ loc.line = 0
           THEN P2Name(BB, i + 1)
           ELSE LocName(StripDir(loc.filename), loc.line)

(***************************************************************************)
(* The state of one run of the pass.                                       *)
(***************************************************************************)

VARIABLES
  pc,                      \* where runOnModule stands
  cl,                      \* the cl::opt options and the files they name
  env,                     \* AFL_INST_RATIO, AFLGO_SELECTIVE, AFLGO_INST_RATIO
  Fn,                      \* the function of the module: its name and blocks
  bi,                      \* the number of blocks of Fn handled so far
  is_aflgo, is_aflgo_preprocessing,
  is_RERS_fuzzing, is_protocol_fuzzing, is_ltl_fuzzing,
  targets, bb_to_dis, basic_blocks, loc_to_revt, loc_to_pevt,
  inst_ratio, is_selective, dinst_ratio,
  named,                   \* Phase 1: per block, the name BB.setName gave it
  bbnames, bbcalls, fnames, ftargets,   \* Phase 1: the lines appended to the ledgers
  inj,                     \* Phase 2: per block, what was injected into it
  prog,                    \* run time: per instrumented block, the constants injected
  prev_loc,                \* run time: __afl_prev_loc
  shm,                     \* run time: the bytes __afl_area_ptr points to
  exec                     \* run time: the last execution of an instrumented block

inputs  == <<cl, env, Fn>>
loaded  == <<is_aflgo, is_aflgo_preprocessing, is_RERS_fuzzing,
             is_protocol_fuzzing, is_ltl_fuzzing,
             targets, bb_to_dis, basic_blocks, loc_to_revt, loc_to_pevt>>
ratios  == <<inst_ratio, is_selective, dinst_ratio>>
ledgers == <<named, bbnames, bbcalls, fnames, ftargets>>
runtime == <<prog, prev_loc, shm, exec>>
vars    == <<pc, inputs, bi, loaded, ratios, ledgers, inj, runtime>>

\* An empty std::map.
EmptyMap == [k \in {} |-> 0]

\* A slip: the map is written with operator[], so a later entry overwrites.
MapEmplace_Overwrite(m, k, v) ==
  [x \in DOMAIN m \cup {k} |-> IF x = k THEN v ELSE m[x]]

\* std::map::emplace and std::map::insert: a key already present keeps its value.
MapEmplace(m, k, v) == IF k \in DOMAIN m THEN m ELSE m @@ (k :> v)

\* FATAL(...) ends the process.
FATAL == "fatal"

(***************************************************************************)
(* Lines 179-267: the options and the files they name.                     *)
(***************************************************************************)

\* The count of digits that start s at position i.
RECURSIVE CountDigits(_, _)
CountDigits(s, i) ==
  IF i <= Len(s) /\ s[i] \in DigitChars THEN 1 + CountDigits(s, i + 1) ELSE 0

RECURSIVE Pow10(_)
Pow10(k) == IF k = 0 THEN 1 ELSE 10 * Pow10(k - 1)

\* (int) (100.0 * atof(s)) for unsigned decimal text "digits[.digits]" whose
\* value a double holds exactly (the modelled distances are such), where the
\* product is exact and the cast truncates.
DistValue(s) ==
  LET i    == SkipBlanks(s, 1)
      n    == CountDigits(s, i)
      ip   == ReadDigits(s, i, 0)
      dot  == i + n <= Len(s) /\ s[i + n] = "."
      k    == IF dot THEN CountDigits(s, i + n + 1) ELSE 0
      frac == IF dot THEN ReadDigits(s, i + n + 1, 0) ELSE 0
  IN  (100 * (ip * Pow10(k) + frac)) \div Pow10(k)

\* Lines 211-220: the distance file, read line by line from line i on.
RECURSIVE LoadDistance(_, _, _)
LoadDistance(lines, i, acc) ==
  IF i > Len(lines) THEN acc
  ELSE
    LET line    == lines[i]
        pos     == find_first(line, ",")
        bb_name == substr_before(line, pos)
        bb_dis  == DistValue(substr_after(line, pos))
    IN  LoadDistance(lines, i + 1,
          [bb_to_dis    |-> MapEmplace(acc.bb_to_dis, bb_name, bb_dis),
           basic_blocks |-> Append(acc.basic_blocks, bb_name)])

\* Lines 229-235: the automaton-event file; each line splits at its last ":".
RECURSIVE LoadREvents(_, _, _)
LoadREvents(lines, i, acc) ==
  IF i > Len(lines) THEN acc
  ELSE
    LET eline == lines[i]
        pos   == find_last_of(eline, {":"})
        loc   == substr_before(eline, pos)
        evt   == substr_after(eline, pos)
    IN  LoadREvents(lines, i + 1, MapEmplace(acc, loc, atoi(evt)))

\* Lines 248-253: the protocol-event file; each line splits at its last ":".
RECURSIVE LoadPEvents(_, _, _)
LoadPEvents(lines, i, acc) ==
  IF i > Len(lines) THEN acc
  ELSE
    LET pline == lines[i]
        pos   == find_last_of(pline, {":"})
        loc   == substr_before(pline, pos)
        evt   == substr_after(pline, pos)
    IN  LoadPEvents(lines, i + 1, MapEmplace(acc, loc, evt))

\* Lines 179-267.
LoadFiles ==
  /\ pc = "load"
  /\ UNCHANGED <<inputs, bi, ratios, ledgers, inj, runtime>>
  /\ IF cl.TargetsFile.given /\ cl.DistanceFile.given
     THEN pc' = FATAL /\ UNCHANGED loaded
     ELSE IF cl.TargetsFile.given
     THEN IF ~cl.OutDirectory
          THEN pc' = FATAL /\ UNCHANGED loaded
          ELSE /\ pc' = "env"
               /\ targets' = cl.TargetsFile.lines
               /\ is_aflgo_preprocessing' = TRUE
               /\ UNCHANGED <<is_aflgo, is_RERS_fuzzing, is_protocol_fuzzing,
                              is_ltl_fuzzing, bb_to_dis, basic_blocks,
                              loc_to_revt, loc_to_pevt>>
     ELSE IF cl.DistanceFile.given
     THEN IF ~cl.DistanceFile.open
          THEN pc' = FATAL /\ UNCHANGED loaded
          ELSE
            LET dist  == LoadDistance(cl.DistanceFile.lines, 1,
                           [bb_to_dis |-> EmptyMap, basic_blocks |-> <<>>])
                rers  == cl.REventsFile.given /\ cl.REventsFile.open
                proto == cl.PEventsFile.given /\ cl.PEventsFile.open
            IN  /\ pc' = "env"
                /\ bb_to_dis' = dist.bb_to_dis
                /\ basic_blocks' = dist.basic_blocks
                /\ is_aflgo' = TRUE
                /\ loc_to_revt' = IF rers
                                  THEN LoadREvents(cl.REventsFile.lines, 1, EmptyMap)
                                  ELSE EmptyMap
                /\ loc_to_pevt' = IF proto
                                  THEN LoadPEvents(cl.PEventsFile.lines, 1, EmptyMap)
                                  ELSE EmptyMap
                /\ is_RERS_fuzzing' = rers
                /\ is_protocol_fuzzing' = proto
                /\ is_ltl_fuzzing' = (rers \/ proto)
                /\ UNCHANGED <<targets, is_aflgo_preprocessing>>
     ELSE pc' = "env" /\ UNCHANGED loaded

(***************************************************************************)
(* Lines 286-313: the ratios and the selective flag.                       *)
(***************************************************************************)

\* Lines 291-292 and 309-310: the text of a ratio is rejected.
BadRatio(str) ==
  LET r == sscanf_u(str) IN r.n # 1 \/ r.v = 0 \/ r.v > 100

\* Line 301: the text of the selective flag is rejected.
BadSelective(str) == sscanf_u(str).n # 1

\* Lines 286-313.  A FATAL leaves the later variables unread.
ReadEnv ==
  /\ pc = "env"
  /\ UNCHANGED <<inputs, bi, loaded, ledgers, inj, runtime>>
  /\ IF env.AFL_INST_RATIO.set /\ BadRatio(env.AFL_INST_RATIO.val)
     THEN pc' = FATAL /\ UNCHANGED ratios
     ELSE IF env.AFLGO_SELECTIVE.set /\ BadSelective(env.AFLGO_SELECTIVE.val)
     THEN /\ pc' = FATAL
          /\ inst_ratio' = IF env.AFL_INST_RATIO.set
                           THEN sscanf_u(env.AFL_INST_RATIO.val).v ELSE 100
          /\ UNCHANGED <<is_selective, dinst_ratio>>
     ELSE IF env.AFLGO_INST_RATIO.set /\ BadRatio(env.AFLGO_INST_RATIO.val)
     THEN /\ pc' = FATAL
          /\ inst_ratio' = IF env.AFL_INST_RATIO.set
                           THEN sscanf_u(env.AFL_INST_RATIO.val).v ELSE 100
          /\ is_selective' = IF env.AFLGO_SELECTIVE.set
                             THEN sscanf_u(env.AFLGO_SELECTIVE.val).v ELSE 0
          /\ UNCHANGED dinst_ratio
     ELSE /\ pc' = IF is_aflgo_preprocessing THEN "open" ELSE "inst"
          /\ inst_ratio' = IF env.AFL_INST_RATIO.set
                           THEN sscanf_u(env.AFL_INST_RATIO.val).v ELSE 100
          /\ is_selective' = IF env.AFLGO_SELECTIVE.set
                             THEN sscanf_u(env.AFLGO_SELECTIVE.val).v ELSE 0
          /\ dinst_ratio' = IF env.AFLGO_INST_RATIO.set
                            THEN sscanf_u(env.AFLGO_INST_RATIO.val).v ELSE 100

(***************************************************************************)
(* Phase 1 (preprocessing), lines 319-440.                                 *)
(***************************************************************************)

\* Lines 319-330: the ledgers are opened and the dot-files directory made.
OpenLedgers ==
  /\ pc = "open"
  /\ pc' = IF cl.mkdir_fails THEN FATAL ELSE "pre"
  /\ UNCHANGED <<inputs, bi, loaded, ratios, ledgers, inj, runtime>>

\* Lines 343-425: the block loop of one function, from block b on.  acc holds
\* is_target, has_BBs, the targets list and what the blocks appended.  The
\* name LLVM gives the block is taken to be the one asked for (bb_name + ":").
RECURSIVE P1Blocks(_, _, _)
P1Blocks(blocks, b, acc) ==
  IF b > Len(blocks) THEN acc
  ELSE
    LET r == P1Scan(blocks[b], acc.is_target, acc.targets)
        resolved == r.bb_name # <<>>
    IN  P1Blocks(blocks, b + 1,
          [is_target |-> r.is_target,
           targets   |-> r.targets,
           has_BBs   |-> acc.has_BBs \/ resolved,
           named     |-> Append(acc.named,
                          IF resolved THEN r.bb_name \o <<":">> ELSE <<>>),
           bbnames   |-> IF resolved
                         THEN Append(acc.bbnames, r.bb_name \o <<":">>)
                         ELSE acc.bbnames,
           bbcalls   |-> acc.bbcalls \o r.bbcalls])

\* Lines 332-440: one function of the module.
P1Function ==
  /\ pc = "pre"
  /\ pc' = "done"
  /\ bi' = Len(Fn.blocks)
  /\ UNCHANGED <<inputs, ratios, inj, runtime, is_aflgo, is_aflgo_preprocessing,
                 is_RERS_fuzzing, is_protocol_fuzzing, is_ltl_fuzzing,
                 bb_to_dis, basic_blocks, loc_to_revt, loc_to_pevt>>
  /\ IF isBlacklisted(Fn.name)
     THEN UNCHANGED <<targets, ledgers>>
     ELSE
       LET r == P1Blocks(Fn.blocks, 1,
                  [is_target |-> FALSE, targets |-> targets, has_BBs |-> FALSE,
                   named |-> <<>>, bbnames |-> <<>>, bbcalls |-> <<>>])
       IN  /\ targets' = r.targets
           /\ named' = r.named
           /\ bbnames' = bbnames \o r.bbnames
           /\ bbcalls' = bbcalls \o r.bbcalls
           /\ fnames' = IF r.has_BBs THEN Append(fnames, Fn.name) ELSE fnames
           /\ ftargets' = IF r.has_BBs /\ r.is_target
                          THEN Append(ftargets, Fn.name) ELSE ftargets

(***************************************************************************)
(* Phase 2 (distance instrumentation), lines 472-697.                      *)
(***************************************************************************)

\* AFL_R(100): a draw from 0..99, here from the values that decide the
\* comparisons with the modelled ratios.
AFL_R100 == {0, 1, 99}

\* Lines 512-515: the scan of bb_to_dis keeps the value of the last entry
\* whose key equals bb_name; a std::map holds each key once.
FindDistance(bb_name) ==
  IF bb_name \in DOMAIN bb_to_dis THEN bb_to_dis[bb_name] ELSE -1

\* A slip: the distance draw is compared with <= instead of <.
DistGate_OffByOne(r) == r <= dinst_ratio

\* Line 511: the distance-apply ratio lets the draw r through.
DistGate(r) == r < dinst_ratio

\* A slip: the instrumentation ratio is never consulted.
InstGate_Always(r) == TRUE

\* Line 624: the instrumentation ratio lets the draw r through.
InstGate(r) == ~(r >= inst_ratio)

\* A slip: the per-block is_traversed flag is not consulted.
RERSHooks_NoFlag(k, loc_name, is_traversed) ==
  IF loc_name \in DOMAIN loc_to_revt
  THEN << [call |-> "automata_handler", at |-> k, arg |-> <<loc_to_revt[loc_name]>>],
          [call |-> "state_handler", at |-> k, arg |-> <<>>] >>
  ELSE <<>>

\* Lines 540-578: the automaton branch for an instruction at position k.
RERSHooks(k, loc_name, is_traversed) ==
  IF loc_name \in DOMAIN loc_to_revt /\ ~is_traversed
  THEN << [call |-> "automata_handler", at |-> k, arg |-> <<loc_to_revt[loc_name]>>],
          [call |-> "state_handler", at |-> k, arg |-> <<>>] >>
  ELSE <<>>

\* Lines 579-607: the protocol branch for an instruction at position k.
ProtocolHooks(k, loc_name, is_traversed) ==
  IF loc_name \in DOMAIN loc_to_pevt /\ ~is_traversed
  THEN << [call |-> "proposition_handler", at |-> k, arg |-> loc_to_pevt[loc_name]],
          [call |-> "state_handler", at |-> k, arg |-> <<>>],
          [call |-> "evaluate_trace", at |-> k, arg |-> <<1>>] >>
  ELSE <<>>

\* Lines 612-617: the end-of-run trace evaluation before a return of main.
MainReturnHooks(k, I) ==
  IF Fn.name = <<"m", "a", "i", "n">> /\ is_RERS_fuzzing /\ I.op = "ret"
  THEN << [call |-> "evaluate_trace", at |-> k, arg |-> <<0>>] >>
  ELSE <<>>

\* A variant: the branch is taken by whichever map lists the location, the
\* automaton map first.
MonitorHit_ByHit(k, loc_name, is_traversed) ==
  IF is_RERS_fuzzing /\ loc_name \in DOMAIN loc_to_revt
  THEN RERSHooks(k, loc_name, is_traversed)
  ELSE ProtocolHooks(k, loc_name, is_traversed)

\* Lines 540-607: the branch taken is fixed by is_RERS_fuzzing alone.
MonitorHit(k, loc_name, is_traversed) ==
  IF is_RERS_fuzzing
  THEN RERSHooks(k, loc_name, is_traversed)
  ELSE ProtocolHooks(k, loc_name, is_traversed)

\* Lines 523-618: the monitoring scan of a block from instruction k on, with
\* the calls injected so far.
RECURSIVE Monitor(_, _, _, _)
Monitor(BB, k, is_traversed, hooks) ==
  IF k > Len(BB) THEN hooks
  ELSE
    LET loc == getDebugLoc(BB[k], <<>>, 0)
    IN  IF loc.filename = <<>> \/ loc.line = 0
        THEN Monitor(BB, k + 1, is_traversed, hooks)
        ELSE
          LET loc_name == LocName(StripDir(loc.filename), loc.line)
              hit == MonitorHit(k, loc_name, is_traversed)
          IN  Monitor(BB, k + 1, is_traversed \/ hit # <<>>,
                      hooks \o hit \o MainReturnHooks(k, BB[k]))

\* A slip: the membership test is inverted (== end() for != end()).
SelectiveSkip_Inverted(bb_name) ==
  /\ is_aflgo
  /\ bb_name # <<>>
  /\ \E j \in 1..Len(basic_blocks) : basic_blocks[j] = bb_name
  /\ is_selective # 0

\* A variant: the skip is not taken while monitoring is on, so that the
\* monitoring scan still sees the block.
SelectiveSkip_UnlessMonitoring(bb_name) ==
  /\ is_aflgo
  /\ bb_name # <<>>
  /\ \A j \in 1..Len(basic_blocks) : basic_blocks[j] # bb_name
  /\ is_selective # 0
  /\ ~is_ltl_fuzzing

\* Lines 502-505: the block is left out by the selective flag.
SelectiveSkip(bb_name) ==
  /\ is_aflgo
  /\ bb_name # <<>>
  /\ \A j \in 1..Len(basic_blocks) : basic_blocks[j] # bb_name
  /\ is_selective # 0

\* Lines 478-696: one block of the function, with r_dist and r_inst the draws
\* of AFL_R(100) at lines 511 and 624 (a draw is made only where its line is
\* reached; the record keeps -1 for a draw not made).
P2Block(r_dist, r_inst) ==
  LET BB       == Fn.blocks[bi + 1]
      bb_name  == IF is_aflgo THEN P2Name(BB, 1) ELSE <<>>
      known    == /\ is_aflgo
                  /\ bb_name # <<>>
                  /\ \E j \in 1..Len(basic_blocks) : basic_blocks[j] = bb_name
      distance == IF known /\ DistGate(r_dist)
                  THEN FindDistance(bb_name) ELSE -1
      hooks    == IF is_ltl_fuzzing THEN Monitor(BB, 1, FALSE, <<>>) ELSE <<>>
  IN  IF SelectiveSkip(bb_name)
      THEN [bb_name |-> bb_name, skipped |-> TRUE, distance |-> -1,
            r_dist |-> -1, r_inst |-> -1,
            hooks |-> <<>>, cov |-> FALSE, dist |-> FALSE]
      ELSE [bb_name |-> bb_name, skipped |-> FALSE, distance |-> distance,
            r_dist |-> IF known THEN r_dist ELSE -1, r_inst |-> r_inst,
            hooks |-> hooks,
            cov |-> InstGate(r_inst),
            dist |-> InstGate(r_inst) /\ distance >= 0]

\* Lines 472-697: the block loop, one block per step.
Instrument ==
  /\ pc = "inst"
  /\ bi < Len(Fn.blocks)
  /\ \E r_dist \in AFL_R100, r_inst \in AFL_R100 :
       inj' = Append(inj, P2Block(r_dist, r_inst))
  /\ bi' = bi + 1
  /\ pc' = IF bi + 1 = Len(Fn.blocks) THEN "done" ELSE "inst"
  /\ UNCHANGED <<inputs, loaded, ratios, ledgers, runtime>>

\* Lines 171-188: the pass is run again on the same module, now with the
\* options opt (the second compilation of the two-phase pipeline); the
\* ledgers of the first run stay on disk.
Recompile(opt) ==
  /\ pc = "done"
  /\ is_aflgo_preprocessing
  /\ pc' = "load"
  /\ cl' = opt
  /\ bi' = 0
  /\ is_aflgo' = FALSE
  /\ is_aflgo_preprocessing' = FALSE
  /\ is_RERS_fuzzing' = FALSE
  /\ is_protocol_fuzzing' = FALSE
  /\ is_ltl_fuzzing' = FALSE
  /\ targets' = <<>>
  /\ bb_to_dis' = EmptyMap
  /\ basic_blocks' = <<>>
  /\ loc_to_revt' = EmptyMap
  /\ loc_to_pevt' = EmptyMap
  /\ inst_ratio' = 100
  /\ is_selective' = 0
  /\ dinst_ratio' = 100
  /\ UNCHANGED <<env, Fn, ledgers, inj, runtime>>

(***************************************************************************)
(* The code injected by lines 628-692, as the instrumented program runs    *)
(* it.  The shared region is MAP_SIZE counter bytes, then the distance     *)
(* word at MapDistLoc and the count word at MapCntLoc (x86_64: 8 bytes     *)
(* each, little-endian).                                                   *)
(***************************************************************************)

MAP_SIZE_POW2 == 3

\* config.h: #define MAP_SIZE (1 << MAP_SIZE_POW2)
MAP_SIZE == 2 ^ MAP_SIZE_POW2

\* Line 452: LargestType is Int64Ty.
LargestTypeBytes == 8

\* Line 458.
MapDistLoc == MAP_SIZE

\* Line 453.
MapCntLoc == MAP_SIZE + 8

\* Lines 446, 649-651: the counter is an i8.
Int8Bits == 8

\* The offsets of the shared region.
ShmOffsets == 0..(MapCntLoc + LargestTypeBytes - 1)

\* AFL_R(MAP_SIZE), line 630: a draw from 0..MAP_SIZE-1.
AFL_R_MAP_SIZE == 0..(MAP_SIZE - 1)

\* IRB.CreateXor on two unsigned values (line 645).
RECURSIVE Xor(_, _)
Xor(a, b) ==
  IF a = 0 /\ b = 0 THEN 0
  ELSE (((a % 2) + (b % 2)) % 2) + 2 * Xor(a \div 2, b \div 2)

\* Lines 649-653: load the byte at MapPtr + idx, add 1 in i8, store it back.
\* An offset outside the modelled region leaves the region as it is.
IncrCounter(m, idx) ==
  IF idx \in DOMAIN m
  THEN [m EXCEPT ![idx] = (m[idx] + 1) % (2 ^ Int8Bits)]
  ELSE m

\* A slip: the whole tag is stored as the previous location.
NextPrevLoc_NoShift(cur_loc) == cur_loc

\* Line 658: the constant stored into __afl_prev_loc, cur_loc >> 1.
NextPrevLoc(cur_loc) == cur_loc \div 2

\* Lines 671-679 and 683-690: load the word at MapPtr + base, add v, store it
\* back: byte i of the word gets the sum's byte i, the carry moves on, and
\* the carry out of the last byte is dropped.
RECURSIVE AddWord(_, _, _, _)
AddWord(m, base, i, v) ==
  IF i = LargestTypeBytes THEN m
  ELSE LET sum == m[base + i] + v
       IN  AddWord([m EXCEPT ![base + i] = sum % 256], base, i + 1, sum \div 256)

\* get_distance_to_target(bb_name): what the runtime returns for the block,
\* taken to be the distance the block was instrumented with.
get_distance_to_target(blk) == blk.distance

\* Lines 636-690, run once for instrumented block b of the program.
ExecBlock(b) ==
  LET blk == prog[b]
      idx == Xor(prev_loc, blk.cur_loc)
      cov == IncrCounter(shm, idx)
  IN  /\ exec' = [n |-> exec.n + 1, b |-> b, idx |-> idx]
      /\ prev_loc' = NextPrevLoc(blk.cur_loc)
      /\ shm' = IF blk.distance >= 0
                THEN AddWord(AddWord(cov, MapDistLoc, 0, get_distance_to_target(blk)),
                             MapCntLoc, 0, 1)
                ELSE cov

\* No instrumented block has run: __afl_prev_loc is 0 and the region is clear.
NoExec == [n |-> 0, b |-> 0, idx |-> -1]

RuntimeAtStart(PROG) ==
  /\ prog \in PROG
  /\ prev_loc = 0
  /\ shm = [o \in ShmOffsets |-> 0]
  /\ exec = NoExec

(***************************************************************************)
(* The inputs: source locations, instructions, blocks, files, environment. *)
(***************************************************************************)

MaxInstrs == 2

MaxBlocks == 2

f_a_c   == <<"a", ".", "c">>
f_b_c   == <<"b", ".", "c">>
f_d_a_c == <<"d", "/", "a", ".", "c">>
f_w_a_c == <<"d", "\\", "a", ".", "c">>
f_usr   == <<"/", "u", "s", "r", "/", "a", ".", "h">>
f_dir   == <<"d", "/">>

n_main == <<"m", "a", "i", "n">>
n_f    == <<"f">>
n_free == <<"f", "r", "e", "e", "A", "l", "l">>

NoLoc(op) ==
  [hasLoc |-> FALSE, file |-> <<>>, line |-> 0, op |-> op, callee |-> <<>>]

At(file, line, op) ==
  [hasLoc |-> TRUE, file |-> file, line |-> line, op |-> op, callee |-> <<>>]

\* The sequences of 1 to n members of S.
SeqsUpTo(S, n) == UNION {[1..m -> S] : m \in 1..n}

NoFile == [given |-> FALSE, open |-> FALSE, lines |-> <<>>]

File(lines) == [given |-> TRUE, open |-> TRUE, lines |-> lines]

Unopenable == [given |-> TRUE, open |-> FALSE, lines |-> <<>>]

Unset == [set |-> FALSE, val |-> <<>>]

Val(str) == [set |-> TRUE, val |-> str]

NoEnv == [AFL_INST_RATIO |-> Unset, AFLGO_SELECTIVE |-> Unset,
          AFLGO_INST_RATIO |-> Unset]

\* The state at the entry of runOnModule (lines 173-188, 287, 299, 305) for
\* options, environment and function drawn from CL, ENV and FN.
PassEntry(CL, ENV, FN) ==
  /\ cl \in CL
  /\ env \in ENV
  /\ Fn \in FN
  /\ bi = 0
  /\ is_aflgo = FALSE
  /\ is_aflgo_preprocessing = FALSE
  /\ is_RERS_fuzzing = FALSE
  /\ is_protocol_fuzzing = FALSE
  /\ is_ltl_fuzzing = FALSE
  /\ targets = <<>>
  /\ bb_to_dis = EmptyMap
  /\ basic_blocks = <<>>
  /\ loc_to_revt = EmptyMap
  /\ loc_to_pevt = EmptyMap
  /\ inst_ratio = 100
  /\ is_selective = 0
  /\ dinst_ratio = 100
  /\ named = <<>>
  /\ bbnames = <<>>
  /\ bbcalls = <<>>
  /\ fnames = <<>>
  /\ ftargets = <<>>
  /\ inj = <<>>

\* The pass is about to run; nothing it instruments runs yet.
InitWith(CL, ENV, FN) ==
  /\ pc = "load"
  /\ PassEntry(CL, ENV, FN)
  /\ RuntimeAtStart({<<>>})

\* Options of a preprocessing run with the given target lines.
PreOptions(lines) ==
  [TargetsFile |-> File(lines), DistanceFile |-> NoFile, OutDirectory |-> TRUE,
   REventsFile |-> NoFile, PEventsFile |-> NoFile, mkdir_fails |-> FALSE]

\* Options of a distance-instrumentation run.
DistOptions(dist, revents, pevents) ==
  [TargetsFile |-> NoFile, DistanceFile |-> dist, OutDirectory |-> FALSE,
   REventsFile |-> revents, PEventsFile |-> pevents, mkdir_fails |-> FALSE]

l_a5   == f_a_c \o <<":", "5">>
l_a7   == f_a_c \o <<":", "7">>
l_b9   == f_b_c \o <<":", "9">>

(***************************************************************************)
(* The two-phase pipeline on one block: a preprocessing run, then a        *)
(* distance-instrumentation run on the same module.                        *)
(***************************************************************************)

IdInstrs ==
  {NoLoc("other")} \cup
  {At(file, line, "other") :
     file \in {<<>>, f_a_c, f_d_a_c, f_w_a_c, f_usr, f_dir}, line \in {0, 5}}

IdFunctions ==
  {[name |-> n_f, blocks |-> <<BB>>] : BB \in SeqsUpTo(IdInstrs, MaxInstrs)}

IdSecondRun == DistOptions(File(<<l_a5 \o <<",", "0", ".", "5">>>>), NoFile, NoFile)

InitId == InitWith({PreOptions(<<l_a5>>)}, {NoEnv}, IdFunctions)

NextId ==
  \/ LoadFiles
  \/ ReadEnv
  \/ OpenLedgers
  \/ P1Function
  \/ Recompile(IdSecondRun)
  \/ Instrument

SpecId == InitId /\ [][NextId]_vars

\* C1: identity stability.  After both runs, the name Phase 1 resolved for a
\* block (written back onto the block with a ":" appended) is the name Phase 2
\* resolved for it, and one is empty exactly when the other is.
C1_IdentityStable ==
  (pc = "done" /\ is_aflgo) =>
    \A b \in 1..Len(inj) :
      named[b] = IF inj[b].bb_name = <<>> THEN <<>>
                 ELSE inj[b].bb_name \o <<":">>

(***************************************************************************)
(* A distance-instrumentation run on a function of one block.              *)
(***************************************************************************)

P2Instrs ==
  { NoLoc("other"), NoLoc("ret"),
    At(f_a_c, 5, "other"), At(f_a_c, 5, "ret"),
    At(f_d_a_c, 7, "other"), At(f_b_c, 9, "other") }

P2Functions ==
  {[name |-> n, blocks |-> <<BB>>] :
     n \in {n_main, n_f}, BB \in SeqsUpTo(P2Instrs, MaxInstrs)}

\* "a.c:5" twice, the larger distance first; "a.c:7" twice, the smaller first.
DistLines ==
  << l_a5 \o <<",", "0", ".", "5">>,
     l_a7 \o <<",", "0", ".", "2", "5">>,
     l_a5 \o <<",", "0", ".", "2", "5">>,
     l_a7 \o <<",", "0", ".", "7", "5">> >>

\* "a.c:5" is an automaton event only, "b.c:9" a protocol event only, and
\* "a.c:7" is both.
REventLines == << l_a5 \o <<":", "3">>, l_a7 \o <<":", "4">> >>

PEventLines == << l_a7 \o <<":", "p">>, l_b9 \o <<":", "q">> >>

\* A run with no distance file (plain coverage), one whose distance file
\* cannot be opened, one given a targets file as well, and runs with the
\* distance file and any of the event files.
P2Options ==
  { DistOptions(NoFile, NoFile, NoFile),
    DistOptions(Unopenable, NoFile, NoFile),
    [DistOptions(File(DistLines), NoFile, NoFile) EXCEPT !.TargetsFile = File(<<l_a5>>)] } \cup
  {DistOptions(File(DistLines), r, p) :
     r \in {NoFile, File(REventLines)}, p \in {NoFile, File(PEventLines)}}

P2Env ==
  [AFL_INST_RATIO   : {Unset, Val(<<"5", "0">>)},
   AFLGO_SELECTIVE  : {Unset, Val(<<"1">>)},
   AFLGO_INST_RATIO : {Unset, Val(<<"1">>)}]

InitP2 == InitWith(P2Options, P2Env, P2Functions)

NextP2 ==
  \/ LoadFiles
  \/ ReadEnv
  \/ Instrument

SpecP2 == InitP2 /\ [][NextP2]_vars

(***************************************************************************)
(* What the claims speak of, read off the inputs.                          *)
(***************************************************************************)

\* The location an instruction carries, as "basename:line"; <<>> when it
\* carries no file or no line.
InstrLoc(I) ==
  IF I.hasLoc /\ I.file # <<>> /\ I.line # 0
  THEN LocName(StripDir(I.file), I.line) ELSE <<>>

\* The block identities the distance file lists.
KnownBlocks ==
  {substr_before(cl.DistanceFile.lines[i], find_first(cl.DistanceFile.lines[i], ",")) :
     i \in 1..Len(cl.DistanceFile.lines)}

\* The positions of the distance file's lines that list identity id.
EntriesOf(id) ==
  {i \in 1..Len(cl.DistanceFile.lines) :
     substr_before(cl.DistanceFile.lines[i],
                   find_first(cl.DistanceFile.lines[i], ",")) = id}

\* The distance the i-th line of the distance file gives.
EntryValue(i) ==
  DistValue(substr_after(cl.DistanceFile.lines[i],
                         find_first(cl.DistanceFile.lines[i], ",")))

\* The locations an event file lists.
EventLocs(file) ==
  IF file.given /\ file.open
  THEN {substr_before(file.lines[i], find_last_of(file.lines[i], {":"})) :
          i \in 1..Len(file.lines)}
  ELSE {}

RLoaded == cl.DistanceFile.given /\ cl.REventsFile.given /\ cl.REventsFile.open

PLoaded == cl.DistanceFile.given /\ cl.PEventsFile.given /\ cl.PEventsFile.open

\* The event map in force: the automaton map when loaded, else the protocol map.
ActiveLocs ==
  IF RLoaded THEN EventLocs(cl.REventsFile)
  ELSE IF PLoaded THEN EventLocs(cl.PEventsFile) ELSE {}

\* The positions of block BB whose instruction's location is in locs.
MatchPos(BB, locs) == {k \in 1..Len(BB) : InstrLoc(BB[k]) \in locs}

Least(S) == CHOOSE k \in S : \A j \in S : k <= j

\* The monitoring-hook injections among the injected calls.
Handlers(hooks) ==
  {i \in 1..Len(hooks) :
     hooks[i].call \in {"automata_handler", "proposition_handler"}}

\* Block b was handled by Phase 2 with selective mode on and an identity the
\* distance file does not list.
SelectiveUnmatched(b) ==
  /\ cl.DistanceFile.given
  /\ is_selective # 0
  /\ inj[b].bb_name # <<>>
  /\ inj[b].bb_name \notin KnownBlocks

\* C2: with a distance file loaded and the selective flag on, a block whose
\* resolved identity the distance file does not list receives no coverage
\* update, no distance accumulation and no monitoring or trace-evaluation call.
C2_SelectiveDropsUnmatched ==
  \A b \in 1..Len(inj) :
    SelectiveUnmatched(b) =>
      ~inj[b].cov /\ ~inj[b].dist /\ inj[b].hooks = <<>>

\* C2's case: such a block that holds an instruction at an event location.
C2_Witness ==
  \E b \in 1..Len(inj) :
    /\ SelectiveUnmatched(b)
    /\ MatchPos(Fn.blocks[b], ActiveLocs) # {}
    /\ inj[b].skipped

\* C3 as claimed: the distance found for a block is the value of the last
\* entry of the distance file that lists the block's identity.
C3_LastEntryWins ==
  \A b \in 1..Len(inj) :
    inj[b].distance >= 0 =>
      \E i \in EntriesOf(inj[b].bb_name) :
        /\ \A j \in EntriesOf(inj[b].bb_name) : j <= i
        /\ inj[b].distance = EntryValue(i)

\* C3 amended: the distance found for a block is the value of the first entry
\* of the distance file that lists the block's identity.
C3_FirstEntryWins ==
  \A b \in 1..Len(inj) :
    inj[b].distance >= 0 =>
      /\ EntriesOf(inj[b].bb_name) # {}
      /\ inj[b].distance = EntryValue(Least(EntriesOf(inj[b].bb_name)))

\* C3's case: a distance was injected into a block whose identity the
\* distance file lists twice with different values.
C3_Witness ==
  \E b \in 1..Len(inj) :
    /\ inj[b].dist
    /\ \E i, j \in EntriesOf(inj[b].bb_name) : EntryValue(i) # EntryValue(j)

\* C5: in monitoring mode at most one monitoring hook (automaton handler or
\* proposition handler, each with one state-handler call) is injected into a
\* block; a block that is not skipped and holds instructions at locations of
\* the event map in force gets it at the first of them, and any other block
\* gets none.
C5_OneHookPerBlock ==
  \A b \in 1..Len(inj) :
    LET hooks == inj[b].hooks
        match == MatchPos(Fn.blocks[b], ActiveLocs)
    IN  /\ Cardinality(Handlers(hooks)) <= 1
        /\ Cardinality({i \in 1..Len(hooks) : hooks[i].call = "state_handler"})
             = Cardinality(Handlers(hooks))
        /\ IF match # {} /\ ~inj[b].skipped
           THEN \E i \in Handlers(hooks) : hooks[i].at = Least(match)
           ELSE Handlers(hooks) = {}

\* C5's case: two instructions of a block are at event locations and the
\* block got one hook.
C5_Witness ==
  \E b \in 1..Len(inj) :
    /\ Cardinality(MatchPos(Fn.blocks[b], ActiveLocs)) >= 2
    /\ Cardinality(Handlers(inj[b].hooks)) = 1

\* C8 as claimed: with selective mode on, a block whose identity the distance
\* file does not list but which holds an instruction at an event location
\* still gets its monitoring hook, and gets no coverage or distance injection.
C8_HookBeforeSkip ==
  \A b \in 1..Len(inj) :
    (SelectiveUnmatched(b) /\ MatchPos(Fn.blocks[b], ActiveLocs) # {}) =>
      /\ Handlers(inj[b].hooks) # {}
      /\ ~inj[b].cov /\ ~inj[b].dist

\* C8 amended: the selective-skip decision is taken before the monitoring
\* scan, so such a block is skipped whole: it gets neither its monitoring
\* hook nor a coverage or distance injection, and no draw is made for it.
C8_SkipBeforeMonitoring ==
  \A b \in 1..Len(inj) :
    (SelectiveUnmatched(b) /\ MatchPos(Fn.blocks[b], ActiveLocs) # {}) =>
      /\ inj[b].skipped
      /\ Handlers(inj[b].hooks) = {}
      /\ ~inj[b].cov /\ ~inj[b].dist

\* C8's case: such a block, in a run where monitoring is on.
C8_Witness ==
  \E b \in 1..Len(inj) :
    /\ SelectiveUnmatched(b)
    /\ is_ltl_fuzzing
    /\ MatchPos(Fn.blocks[b], ActiveLocs) # {}
    /\ inj[b].hooks = <<>>

\* The draw of the instrumentation ratio failed for block b.
InstSampleFailed(b) ==
  ~inj[b].skipped /\ inj[b].r_inst >= inst_ratio

\* C9 as claimed: when the instrumentation-ratio draw fails for a block,
\* nothing at all is injected into it.
C9_NothingOnFailedSample ==
  \A b \in 1..Len(inj) :
    InstSampleFailed(b) =>
      ~inj[b].cov /\ ~inj[b].dist /\ inj[b].hooks = <<>>

\* C9 amended: when the instrumentation-ratio draw fails for a block, no
\* coverage update and no distance accumulation is injected into it; the
\* monitoring scan has run before the draw, and its hook stays.
C9_NoCoverageOnFailedSample ==
  \A b \in 1..Len(inj) :
    InstSampleFailed(b) =>
      /\ ~inj[b].cov /\ ~inj[b].dist
      /\ MatchPos(Fn.blocks[b], ActiveLocs) # {} => Handlers(inj[b].hooks) # {}

\* C9's case: the draw failed for a block that got a monitoring hook.
C9_Witness ==
  \E b \in 1..Len(inj) :
    /\ InstSampleFailed(b)
    /\ Handlers(inj[b].hooks) # {}
    /\ ~inj[b].cov

\* The first position of block BB at a location of either event map.
FirstEvent(BB) ==
  Least(MatchPos(BB, EventLocs(cl.REventsFile) \cup EventLocs(cl.PEventsFile)))

\* C10 as claimed: with both event files loaded, a location of the automaton
\* map gets the automaton hooks only, and a location of the protocol map
\* alone gets the protocol hooks.
C10_BranchOnHit ==
  \A b \in 1..Len(inj) :
    LET BB    == Fn.blocks[b]
        hooks == inj[b].hooks
        any   == MatchPos(BB, EventLocs(cl.REventsFile) \cup EventLocs(cl.PEventsFile))
    IN  (RLoaded /\ PLoaded /\ ~inj[b].skipped /\ any # {}) =>
          IF InstrLoc(BB[FirstEvent(BB)]) \in EventLocs(cl.REventsFile)
          THEN \E i \in Handlers(hooks) :
                 hooks[i].call = "automata_handler" /\ hooks[i].at = FirstEvent(BB)
          ELSE \E i \in Handlers(hooks) :
                 hooks[i].call = "proposition_handler" /\ hooks[i].at = FirstEvent(BB)

\* C10 amended: with both event files loaded only the automaton map is
\* consulted: the first location of a block that the automaton map lists gets
\* the automaton hooks, no protocol hook and no 'continue' trace evaluation is
\* injected, and a block whose locations are in the protocol map alone gets
\* no monitoring hook.
C10_AutomatonOnly ==
  \A b \in 1..Len(inj) :
    LET BB    == Fn.blocks[b]
        hooks == inj[b].hooks
        rpos  == MatchPos(BB, EventLocs(cl.REventsFile))
    IN  (RLoaded /\ PLoaded /\ ~inj[b].skipped) =>
          /\ \A i \in 1..Len(hooks) :
               /\ hooks[i].call # "proposition_handler"
               /\ ~(hooks[i].call = "evaluate_trace" /\ hooks[i].arg = <<1>>)
          /\ IF rpos # {}
             THEN \E i \in Handlers(hooks) :
                    hooks[i].call = "automata_handler" /\ hooks[i].at = Least(rpos)
             ELSE Handlers(hooks) = {}

\* C10's case: both files are loaded and a block that is not skipped holds an
\* instruction at a location of the protocol map alone, and got no hook.
C10_Witness ==
  \E b \in 1..Len(inj) :
    /\ RLoaded /\ PLoaded /\ ~inj[b].skipped
    /\ MatchPos(Fn.blocks[b], EventLocs(cl.PEventsFile) \ EventLocs(cl.REventsFile)) # {}
    /\ Handlers(inj[b].hooks) = {}

(***************************************************************************)
(* Distance-instrumentation runs over the texts of the environment.        *)
(***************************************************************************)

EnvTexts ==
  { Unset, Val(<<>>), Val(<<"a", "b", "c">>), Val(<<"0">>), Val(<<"1">>),
    Val(<<"2">>), Val(<<"5", "0">>), Val(<<"1", "0", "0">>),
    Val(<<"1", "0", "1">>), Val(<<"7", "x">>) }

EnvAll ==
  [AFL_INST_RATIO : EnvTexts, AFLGO_SELECTIVE : EnvTexts,
   AFLGO_INST_RATIO : EnvTexts]

EnvFunctions ==
  {[name |-> n_f, blocks |-> <<BB>>] :
     BB \in {<<At(f_a_c, 5, "other")>>, <<At(f_b_c, 9, "other")>>}}

InitEnv ==
  InitWith({DistOptions(File(DistLines), NoFile, NoFile)}, EnvAll, EnvFunctions)

SpecEnv == InitEnv /\ [][NextP2]_vars

\* The text holds no number at its start (blanks aside).
NotANumber(str) ==
  LET i == SkipBlanks(str, 1) IN i > Len(str) \/ str[i] \notin DigitChars

\* The number at the start of a text that holds one.
NumberOf(str) == ReadDigits(str, SkipBlanks(str, 1), 0)

\* A supplied ratio that is non-numeric or outside 1..100.
MalformedRatio(e) ==
  e.set /\ (NotANumber(e.val) \/ NumberOf(e.val) \notin 1..100)

\* A supplied selective flag that is non-numeric or outside {0, 1}.
MalformedSelective(e) ==
  e.set /\ (NotANumber(e.val) \/ NumberOf(e.val) \notin {0, 1})

\* C4 as claimed: a block processed with instrumentation ratio 100 and
\* distance-apply ratio 0 receives the coverage injection and never the
\* distance injection.  Stated of a run that has ended, with no selective flag.
C4_ZeroDistanceRatio ==
  ( /\ pc \in {"done", FATAL}
    /\ env.AFL_INST_RATIO = Val(<<"1", "0", "0">>)
    /\ env.AFLGO_SELECTIVE = Unset
    /\ env.AFLGO_INST_RATIO = Val(<<"0">>) ) =>
      /\ Len(inj) = Len(Fn.blocks)
      /\ \A b \in 1..Len(inj) : inj[b].cov /\ ~inj[b].dist

\* C4 amended: a distance-apply ratio of 0 ends the run before any block is
\* processed, as every value outside 1..100 does.  A block processed (and not
\* skipped by the selective flag) with instrumentation ratio 100 always
\* receives the coverage injection, and receives the distance injection only
\* when its own draw is below the distance-apply ratio.
C4_DistanceGatedByOwnRatio ==
  /\ (env.AFLGO_INST_RATIO = Val(<<"0">>)) => inj = <<>>
  /\ pc \in {"inst", "done"} => dinst_ratio \in 1..100
  /\ \A b \in 1..Len(inj) :
       (inst_ratio = 100 /\ ~inj[b].skipped) =>
         /\ inj[b].cov
         /\ inj[b].dist => (inj[b].r_dist # -1 /\ inj[b].r_dist < dinst_ratio)

\* C4's case: ratio 100, the lowest distance-apply ratio, a listed block
\* whose distance draw failed: coverage without distance.
C4_Witness ==
  \E b \in 1..Len(inj) :
    /\ inst_ratio = 100 /\ dinst_ratio = 1
    /\ inj[b].bb_name \in KnownBlocks
    /\ inj[b].r_dist = 1
    /\ inj[b].cov /\ ~inj[b].dist

\* C6: every malformed configuration value is fatal: in a run where a
\* supplied ratio is non-numeric or outside 1..100, or the supplied selective
\* flag is non-numeric or outside {0, 1}, no block is ever instrumented.
C6_MalformedIsFatal ==
  ( \/ MalformedRatio(env.AFL_INST_RATIO)
    \/ MalformedRatio(env.AFLGO_INST_RATIO)
    \/ MalformedSelective(env.AFLGO_SELECTIVE) ) =>
      inj = <<>>

(***************************************************************************)
(* A preprocessing run on a function of several blocks.                    *)
(***************************************************************************)

P1Instrs ==
  {NoLoc("other"), At(f_a_c, 5, "other"), At(f_d_a_c, 7, "other")}

\* Blocks of one or two instructions.
P1BlockSet ==
  {<<I>> : I \in P1Instrs} \cup {<<I, J>> : I \in P1Instrs, J \in P1Instrs}

\* Functions of 1 to MaxBlocks blocks, and blacklisted ones of one block.
P1Functions ==
  {[name |-> n_f, blocks |-> blocks] : blocks \in SeqsUpTo(P1BlockSet, MaxBlocks)} \cup
  {[name |-> n_free, blocks |-> <<BB>>] : BB \in P1BlockSet}

\* "x/y/a.c:7" names a.c line 7 under other directories; "a.c:05" names a.c
\* line 5; "b.c:5" names no instruction of P1Instrs.
TargetLists ==
  { << <<"x", "/", "y", "/">> \o l_a7 >>,
    << f_b_c \o <<":", "5">>, f_a_c \o <<":", "0", "5">> >> }

\* Runs with each target list, one without an output directory and one whose
\* dot-files directory cannot be made.
P1Options ==
  {PreOptions(t) : t \in TargetLists} \cup
  { [PreOptions(<<l_a5>>) EXCEPT !.OutDirectory = FALSE],
    [PreOptions(<<l_a5>>) EXCEPT !.mkdir_fails = TRUE] }

InitP1 == InitWith(P1Options, {NoEnv}, P1Functions)

NextP1 ==
  \/ LoadFiles
  \/ ReadEnv
  \/ OpenLedgers
  \/ P1Function

SpecP1 == InitP1 /\ [][NextP1]_vars

\* The number of times name stands in a ledger.
Count(ledger, name) == Cardinality({i \in 1..Len(ledger) : ledger[i] = name})

\* The target-file lines, as given on the command line.
TargetEntries == {cl.TargetsFile.lines[i] : i \in 1..Len(cl.TargetsFile.lines)}

\* The file and the line a target entry names, its directories dropped.
TargetFile(t) == substr_before(StripDir(t), find_last_of(StripDir(t), {":"}))

TargetLine(t) == NumberOf(substr_after(StripDir(t), find_last_of(StripDir(t), {":"})))

\* C7 as claimed: the function's name is appended to the target-function
\* ledger exactly when the function is not blacklisted, has a block with a
\* resolved identity, and the resolved identity of one of its blocks equals
\* basename:line of a target entry.
C7_TargetByBlockIdentity ==
  pc = "done" =>
    ( Count(ftargets, Fn.name) = 1 <=>
        /\ ~isBlacklisted(Fn.name)
        /\ \E b \in 1..Len(named) : named[b] # <<>>
        /\ \E b \in 1..Len(named), t \in TargetEntries :
             named[b] = StripDir(t) \o <<":">> )

\* C7 amended: the function's name is appended to the target-function ledger
\* once, exactly when the function is not blacklisted and some instruction of
\* one of its blocks, the first of the block or a later one, carries a usable
\* location (a non-empty basename and a non-zero line) whose basename and line
\* number are those of a target entry; it is never appended more than once.
C7_TargetByInstruction ==
  /\ Count(ftargets, Fn.name) <= 1
  /\ pc = "done" =>
       ( Count(ftargets, Fn.name) = 1 <=>
           /\ ~isBlacklisted(Fn.name)
           /\ \E b \in 1..Len(Fn.blocks) : \E k \in 1..Len(Fn.blocks[b]) :
                LET I == Fn.blocks[b][k]
                IN  /\ I.hasLoc /\ StripDir(I.file) # <<>> /\ I.line # 0
                    /\ \E t \in TargetEntries :
                         /\ TargetFile(t) = StripDir(I.file)
                         /\ TargetLine(t) = I.line )

\* C7's case: the function was marked for an instruction that is not the one
\* its block is named after, under a target given with directories.
C7_Witness ==
  /\ pc = "done"
  /\ ftargets = <<Fn.name>>
  /\ \E t \in TargetEntries : StripDir(t) # t
  /\ \A b \in 1..Len(named), t \in TargetEntries :
       named[b] # StripDir(t) \o <<":">>

(***************************************************************************)
(* A preprocessing run on a function whose blocks hold calls.              *)
(***************************************************************************)

n_g      == <<"g">>
n_malloc == <<"m", "a", "l", "l", "o", "c">>

\* Instruction I as a call of callee (<<>> for a callee not statically known).
Call(I, callee) == [I EXCEPT !.op = "call", !.callee = callee]

\* Calls of g without a location, with a usable one, with line 0 and with a
\* path that ends in a separator; a call of a blacklisted callee and an
\* indirect call; and instructions that are no calls.
CallInstrs ==
  { NoLoc("other"), At(f_a_c, 5, "other"), At(f_a_c, 0, "other"),
    Call(NoLoc("other"), n_g),
    Call(At(f_d_a_c, 7, "other"), n_g),
    Call(At(f_a_c, 0, "other"), n_g),
    Call(At(f_dir, 7, "other"), n_g),
    Call(At(f_a_c, 7, "other"), n_malloc),
    Call(At(f_a_c, 7, "other"), <<>>) }

\* The blocks of the functions of several blocks.
CallBlockSet ==
  { <<At(f_a_c, 5, "other")>>,
    <<Call(NoLoc("other"), n_g)>>,
    <<Call(At(f_d_a_c, 7, "other"), n_g)>>,
    <<Call(At(f_b_c, 9, "other"), n_free)>> }

\* Functions of one block of 1 to MaxInstrs instructions, blacklisted or not,
\* and functions of 1 to MaxBlocks blocks of one instruction.
CallFunctions ==
  {[name |-> n, blocks |-> <<BB>>] :
     n \in {n_f, n_free}, BB \in SeqsUpTo(CallInstrs, MaxInstrs)} \cup
  {[name |-> n_f, blocks |-> blocks] : blocks \in SeqsUpTo(CallBlockSet, MaxBlocks)}

InitCalls == InitWith({PreOptions(<<l_a5>>)}, {NoEnv}, CallFunctions)

SpecCalls == InitCalls /\ [][NextP1]_vars

\* A call whose callee is statically known and not blacklisted.
Recordable(I) == I.op = "call" /\ I.callee # <<>> /\ ~isBlacklisted(I.callee)

\* The identity Phase 1 resolved for block b (its name without the ":").
BlockIdentity(b) == SubSeq(named[b], 1, Len(named[b]) - 1)

\* The call-edge records of the instructions of block b at the positions pos,
\* in the order of the block.
Edges(b, pos) ==
  LET BB  == Fn.blocks[b]
      idx == SelectSeq([k \in 1..Len(BB) |-> k], LAMBDA k : k \in pos)
  IN  [i \in 1..Len(idx) |-> [bb |-> BlockIdentity(b), callee |-> BB[idx[i]].callee]]

\* The ledger that holds the records of the positions pos[b] of every block b,
\* from block b on.
RECURSIVE LedgerOf(_, _)
LedgerOf(pos, b) ==
  IF b > Len(Fn.blocks) THEN <<>> ELSE Edges(b, pos[b]) \o LedgerOf(pos, b + 1)

\* The instruction of block BB whose location is in force at position k: the
\* last one up to k that carries a location.
Located(BB, k) == {j \in 1..k : BB[j].hasLoc}

Greatest(S) == CHOOSE k \in S : \A j \in S : j <= k

\* The location in force at position k is usable: its basename is not empty
\* and its line is not 0.
UsableAt(BB, k) ==
  /\ Located(BB, k) # {}
  /\ StripDir(BB[Greatest(Located(BB, k))].file) # <<>>
  /\ BB[Greatest(Located(BB, k))].line # 0

\* C11 as claimed: once a function that is not blacklisted has been scanned,
\* the call-edge ledger holds exactly one record (identity of the block,
\* callee) for every call with a known, non-blacklisted callee in a block with
\* a resolved identity, whatever the call's own location and position.
C11_EveryCallRecorded ==
  (pc = "done" /\ ~isBlacklisted(Fn.name)) =>
    bbcalls = LedgerOf([b \in 1..Len(Fn.blocks) |->
                          IF named[b] = <<>> THEN {}
                          ELSE {k \in 1..Len(Fn.blocks[b]) :
                                  Recordable(Fn.blocks[b][k])}], 1)

\* C11 amended: the ledger holds, in the order of the code, exactly one record
\* (identity of the block, callee) for every call with a known, non-blacklisted
\* callee at which the location in force is usable: the call's own location
\* when it carries one, else the location of the nearest earlier instruction
\* of the same block that carries one.  A call that carries an unusable
\* location, or carries none and follows no located instruction of its block,
\* is not recorded; a blacklisted function records nothing.
C11_CallRecordedWhenLocated ==
  /\ (pc # "done" \/ isBlacklisted(Fn.name)) => bbcalls = <<>>
  /\ (pc = "done" /\ ~isBlacklisted(Fn.name)) =>
       bbcalls = LedgerOf([b \in 1..Len(Fn.blocks) |->
                             {k \in 1..Len(Fn.blocks[b]) :
                                /\ Recordable(Fn.blocks[b][k])
                                /\ UsableAt(Fn.blocks[b], k)}], 1)

\* C11's case: a block with a resolved identity holds a recordable call at
\* which no usable location is in force and a later recordable call, and the
\* ledger holds the record of the later call alone.
C11_Witness ==
  /\ pc = "done"
  /\ ~isBlacklisted(Fn.name)
  /\ \E b \in 1..Len(Fn.blocks) :
       LET BB == Fn.blocks[b]
       IN  /\ named[b] # <<>>
           /\ \E k \in 1..Len(BB), j \in 1..Len(BB) :
                /\ k < j
                /\ Recordable(BB[k]) /\ ~UsableAt(BB, k)
                /\ Recordable(BB[j]) /\ UsableAt(BB, j)
                /\ bbcalls = << [bb |-> BlockIdentity(b), callee |-> BB[j].callee] >>

(***************************************************************************)
(* The end-of-run trace evaluation, on the runs of SpecP2.                 *)
(***************************************************************************)

\* The injected calls of block b that are an end-of-run trace evaluation
\* (evaluate_trace with flag 0) placed before the instruction at position k.
Finalizes(b, k) ==
  {i \in 1..Len(inj[b].hooks) :
     inj[b].hooks[i] = [call |-> "evaluate_trace", at |-> k, arg |-> <<0>>]}

\* C12: with the automaton event map loaded, in every block of main that the
\* monitoring scan visits (one the selective flag does not skip), every return
\* instruction, whatever its source location, has an end-of-run
\* trace-evaluation call (flag 0) injected immediately before it.
C12_FinalizeBeforeEveryReturn ==
  \A b \in 1..Len(inj) :
    (RLoaded /\ Fn.name = n_main /\ ~inj[b].skipped) =>
      \A k \in 1..Len(Fn.blocks[b]) :
        Fn.blocks[b][k].op = "ret" => Finalizes(b, k) # {}

(***************************************************************************)
(* The instrumented program at run time.  The pass has been run and stands *)
(* idle; prog holds, per instrumented block, the constants lines 630-632   *)
(* and 661 put into its code.                                              *)
(***************************************************************************)

MaxExec == 3

\* Executions enough for one counter to go round once.
LoopRuns == 2 ^ Int8Bits + 1

\* An instrumented block: its tag, and the distance it was instrumented with
\* (-1 for a block that got no distance code).
RunBlocks == [cur_loc : AFL_R_MAP_SIZE, distance : {-1, 50}]

\* Programs of one instrumented block (a loop) and of two (every pair of tags
\* meets as an edge).
RunPrograms ==
  {<<B>> : B \in RunBlocks} \cup {<<B1, B2>> : B1 \in RunBlocks, B2 \in RunBlocks}

InitRun ==
  /\ pc = "run"
  /\ PassEntry({DistOptions(NoFile, NoFile, NoFile)}, {NoEnv},
               {[name |-> n_main, blocks |-> <<>>]})
  /\ RuntimeAtStart(RunPrograms)

\* Control reaches an instrumented block of the program.  A program of one
\* block runs up to LoopRuns times, one of two blocks up to MaxExec times.
Run ==
  /\ pc = "run"
  /\ exec.n < (IF Len(prog) = 1 THEN LoopRuns ELSE MaxExec)
  /\ \E b \in 1..Len(prog) : ExecBlock(b)
  /\ UNCHANGED <<pc, inputs, bi, loaded, ratios, ledgers, inj, prog>>

NextRun == Run

SpecRun == InitRun /\ [][NextRun]_vars

\* The offsets of the distance word and of the count word.
SlotOffsets == MapDistLoc..(MapCntLoc + LargestTypeBytes - 1)

\* The bytes of the two words.
SlotBytes(m) == [o \in SlotOffsets |-> m[o]]

\* The previous-location state is below MAP_SIZE/2 and the last edge index is
\* inside the counter bytes, off the two words.
PrevLocAndIndexInRange ==
  /\ prev_loc \in 0..((MAP_SIZE \div 2) - 1)
  /\ exec.n > 0 => /\ exec.idx \in 0..(MAP_SIZE - 1)
                   /\ exec.idx \notin SlotOffsets

\* An execution adds 1 modulo 256 to the counter byte at its edge index and
\* leaves the other counter bytes; the two words change only by the block's
\* own distance code.
EdgeWritesOneCounter ==
  /\ \A o \in 0..(MAP_SIZE - 1) :
       shm'[o] = IF o = exec'.idx THEN (shm[o] + 1) % 256 ELSE shm[o]
  /\ SlotBytes(shm') =
       SlotBytes(IF prog[exec'.b].distance >= 0
                 THEN AddWord(AddWord(shm, MapDistLoc, 0, prog[exec'.b].distance),
                              MapCntLoc, 0, 1)
                 ELSE shm)

\* C13: with every tag drawn from 0..MAP_SIZE-1, MAP_SIZE a power of two, and
\* the previous-location state starting at 0, after any sequence of executions
\* of instrumented blocks the previous-location state is below MAP_SIZE/2 and
\* the edge index is in 0..MAP_SIZE-1; an edge-counter increment (modulo 256)
\* never writes the distance word at offset MAP_SIZE or the count word after it.
C13_CoverageStaysInMap ==
  []PrevLocAndIndexInRange /\ [][EdgeWritesOneCounter]_vars

\* C13's case: a block with distance code has run until the counter at the
\* last offset of the map, next to the distance word, has gone round to 0,
\* and the distance word holds what the block's own code added.
C13_Witness ==
  /\ exec.n = LoopRuns
  /\ exec.idx = MAP_SIZE - 1
  /\ shm[MAP_SIZE - 1] = 0
  /\ shm[MapDistLoc] = (LoopRuns * 50) % 256

====
